---------------------------- MODULE Spec2Model ----------------------------
(***************************************************************************)
(* Model of the traffic-light detector: the image-processing loop of       *)
(* main(), the per-connection client threads of the web server (upload     *)
(* handler and MJPEG stream handler), the configuration record g_config,   *)
(* the persisted config.json, the reload flag and the shared JPEG buffer.  *)
(* The repository holds two programs, src/app/main.cpp and                 *)
(* src/app/example.cpp; the variable prog says which one is running.       *)
(***************************************************************************)
EXTENDS Integers, Sequences, FiniteSets, TLC

(* ------------------------------ bounds --------------------------------- *)

\* number of connections the server accepts over a run, one thread each
NumClients == 2
\* number of raw frames the provider yields before it reports end-of-stream
MaxFrames == 2
\* number of elements of an encoded frame
FrameLen == 2
Clients == 1..NumClients
Progs == {"main", "example"}

(* --------------------------- configuration ----------------------------- *)

\* AppConfig's fields, in the order load_config assigns them
Fields ==
  << "master_roi_x", "master_roi_y", "master_roi_width", "master_roi_height",
     "red_x", "red_y", "yellow_x", "yellow_y", "green_x", "green_y",
     "lamp_radius", "min_brightness_threshold" >>

FieldSet == { Fields[i] : i \in 1..Len(Fields) }

\* the in-class initialisers of AppConfig
DefaultConfig ==
  [ master_roi_x |-> 385, master_roi_y |-> 207,
    master_roi_width |-> 82, master_roi_height |-> 315,
    red_x |-> 42, red_y |-> 33, yellow_x |-> 40, yellow_y |-> 154,
    green_x |-> 40, green_y |-> 251, lamp_radius |-> 37,
    min_brightness_threshold |-> 80 ]

\* example.cpp's load_config reads eleven keys: the threshold is a constant there
NumLoaded(p) == IF p = "main" THEN 12 ELSE 11

(* ------------------------- JSON documents ------------------------------ *)

IntV(n) == [t |-> "int", v |-> n]
StrV == [t |-> "str", v |-> 0]

\* request bodies a client may upload
BodyIds == {"radius20", "width0", "badtype"}

\* what nlohmann::json::parse makes of each body
Json(b) ==
  CASE b = "radius20" -> [kind |-> "object", obj |-> ("lamp_radius" :> IntV(20))]
    [] b = "width0"   -> [kind |-> "object",
                          obj |-> ("master_roi_width" :> IntV(0) @@ "lamp_radius" :> IntV(25))]
    [] b = "badtype"  -> [kind |-> "object",
                          obj |-> ("master_roi_x" :> IntV(1) @@ "red_x" :> StrV)]

\* length of each body's text
BodyLen(b) == IF b = "radius20" THEN 1 ELSE 2

\* the text of body b, element by element
BodyText(b) == [i \in 1..BodyLen(b) |-> <<b, i>>]

\* json::parse of a file's text: a text that is not exactly one body is a parse error
ParseText(text) ==
  IF \E b \in BodyIds : text = BodyText(b)
  THEN Json(CHOOSE b \in BodyIds : text = BodyText(b))
  ELSE [kind |-> "parse_error", obj |-> <<>>]

\* the default load_config passes to j.value for the i-th key
ValueDefault(p, cfg, i) ==
  IF p = "main" /\ Fields[i] = "yellow_y" THEN cfg["yellow_x"] ELSE cfg[Fields[i]]

\* the assignments of load_config from the i-th on; a j.value that throws ends them
RECURSIVE AssignFrom(_, _, _, _)
AssignFrom(p, cfg, obj, i) ==
  IF i > NumLoaded(p) THEN cfg
  ELSE LET k == Fields[i] IN
       IF k \in DOMAIN obj
       THEN IF obj[k].t = "int"
            THEN AssignFrom(p, [cfg EXCEPT ![k] = obj[k].v], obj, i + 1)
            ELSE cfg
       ELSE AssignFrom(p, [cfg EXCEPT ![k] = ValueDefault(p, cfg, i)], obj, i + 1)

\* load_config: g_config after loading from a file
LoadConfig(p, cfg, f) ==
  IF ~f.exists THEN cfg
  ELSE LET j == ParseText(f.text) IN
       IF j.kind = "object" THEN AssignFrom(p, cfg, j.obj, 1) ELSE cfg


(* --------------------------- classification ---------------------------- *)

\* the fixed stream resolution of main()
FrameWidth == 1280
FrameHeight == 720
\* example.cpp's MIN_BRIGHTNESS_THRESHOLD
ExampleThreshold == 80

Labels == {"RED", "YELLOW", "GREEN", "UNKNOWN"}

\* mutant of RoiInvalid: the far edges of the ROI are not compared with the frame
RoiInvalidNearEdgesOnly(cfg) ==
  \/ cfg["master_roi_width"] <= 0
  \/ cfg["master_roi_height"] <= 0
  \/ cfg["master_roi_x"] < 0
  \/ cfg["master_roi_y"] < 0

\* the validity check of the master ROI against the frame
RoiInvalid(cfg) ==
  \/ cfg["master_roi_width"] <= 0
  \/ cfg["master_roi_height"] <= 0
  \/ cfg["master_roi_x"] < 0
  \/ cfg["master_roi_y"] < 0
  \/ cfg["master_roi_x"] + cfg["master_roi_width"] > FrameWidth
  \/ cfg["master_roi_y"] + cfg["master_roi_height"] > FrameHeight

LampX(cfg, i) == cfg[<<"red_x", "yellow_x", "green_x">>[i]]
LampY(cfg, i) == cfg[<<"red_y", "yellow_y", "green_y">>[i]]

\* example.cpp skips a lamp whose centre is outside the cropped ROI
LampSkipped(p, cfg, i) ==
  /\ p = "example"
  /\ \/ LampX(cfg, i) < 0
     \/ LampY(cfg, i) < 0
     \/ LampX(cfg, i) >= cfg["master_roi_width"]
     \/ LampY(cfg, i) >= cfg["master_roi_height"]

\* mutant of Brightest: the first lamp brighter than 0 stays the brightest
RECURSIVE BrightestFirstLit(_, _, _, _)
BrightestFirstLit(p, cfg, ls, i) ==
  IF i = 0 THEN <<0, -1>>
  ELSE LET prev == BrightestFirstLit(p, cfg, ls, i - 1) IN
       IF ~LampSkipped(p, cfg, i) /\ ls[i] > prev[1] /\ prev[2] = -1
       THEN <<ls[i], i - 1>>
       ELSE prev

\* the running maximum after lamps 1..i: <<max_luma, brightest_idx>> (idx 0-based, -1 none)
RECURSIVE Brightest(_, _, _, _)
Brightest(p, cfg, ls, i) ==
  IF i = 0 THEN <<0, -1>>
  ELSE LET prev == Brightest(p, cfg, ls, i - 1) IN
       IF ~LampSkipped(p, cfg, i) /\ ls[i] > prev[1]
       THEN <<ls[i], i - 1>>
       ELSE prev

Threshold(p, cfg) ==
  IF p = "main" THEN cfg["min_brightness_threshold"] ELSE ExampleThreshold

\* mutant of Classify: a maximum equal to the threshold already counts
ClassifyAtThreshold(p, cfg, ls) ==
  IF RoiInvalid(cfg) THEN "UNKNOWN"
  ELSE LET b == Brightest(p, cfg, ls, 3) IN
       IF b[1] >= Threshold(p, cfg)
       THEN CASE b[2] = 0 -> "RED"
              [] b[2] = 1 -> "YELLOW"
              [] b[2] = 2 -> "GREEN"
              [] OTHER    -> "UNKNOWN"
       ELSE "UNKNOWN"

\* current_state of one cycle
Classify(p, cfg, ls) ==
  IF RoiInvalid(cfg) THEN "UNKNOWN"
  ELSE LET b == Brightest(p, cfg, ls, 3) IN
       IF b[1] > Threshold(p, cfg)
       THEN CASE b[2] = 0 -> "RED"
              [] b[2] = 1 -> "YELLOW"
              [] b[2] = 2 -> "GREEN"
              [] OTHER    -> "UNKNOWN"
       ELSE "UNKNOWN"

\* the mean luminances a frame may show at the three lamps
LumaTriples == { <<200, 0, 0>> }

\* imencode of the annotated frame: every element carries the frame and its marker
Encode(id, label) == [i \in 1..FrameLen |-> <<id, label>>]

(* ------------------------------- state --------------------------------- *)

VARIABLES
  prog,              \* which program runs: "main" or "example"
  mpc,               \* position of the main thread
  g_config,          \* the global configuration
  current_config,    \* the loop's local copy
  config_mtx,        \* holder of g_config.mtx: 0 free, or MainId
  flag,              \* g_reload_config_flag
  file,              \* config.json: [exists, text]
  frame_mutex,       \* holder of frame_mutex: 0 free, MainId, or a client
  jpeg_buffer,       \* the shared encoded frame
  temp_jpeg_buffer,  \* the loop's freshly encoded frame
  wi,                \* elements of temp_jpeg_buffer already assigned to jpeg_buffer
  frameNo,           \* frames obtained from the provider so far
  lumas,             \* mean luminance at the three lamps of the frame last obtained
  buf,               \* the raw frame the loop holds (0: none)
  cpc,               \* position of each client thread
  req,               \* the request each client thread read
  buffer_copy,       \* each stream thread's copy of the frame
  alive,             \* whether each connection's peer still reads
  out,               \* the status lines each thread wrote to its connection
  sent,              \* the last frame chunk each stream thread wrote
  spc,               \* position of the server thread
  loop,              \* the global GMainLoop pointer (main.cpp): 0 is NULL, 1 the loop
  is_running,        \* the running state of the GMainLoop
  published,         \* history: the frames completely published
  persisted,         \* history: body of the last upload whose write of the file completed
  closes             \* history: how many times each connection was closed

mainVars == <<mpc, g_config, current_config, temp_jpeg_buffer, wi, frameNo, lumas, buf>>
sharedVars == <<flag, file, frame_mutex, jpeg_buffer>>
clientVars == <<cpc, req, buffer_copy, alive, out, sent>>
serverVars == <<spc, loop, is_running>>
histVars == <<published, persisted, closes>>
vars == <<prog, mainVars, config_mtx, sharedVars, clientVars, serverVars, histVars>>

\* the main thread's name as a holder of a mutex
MainId == NumClients + 1

\* no chunk written yet
NoChunk == [boundary |-> "", type |-> "", length |-> 0, payload |-> <<>>, delimiter |-> ""]

NoRequest == [kind |-> "none", body |-> "none"]

\* the requests a connection may carry
Requests ==
  [kind : {"post"}, body : BodyIds]
  \cup [kind : {"post_empty", "post_nosep", "stream", "options", "other", "readfail"},
        body : {"none"}]

\* config.json before the program starts: not there, or left by an earlier run
InitialFiles ==
  { [exists |-> FALSE, text |-> <<>>],
    [exists |-> TRUE, text |-> BodyText("radius20")] }

Init ==
  /\ prog \in Progs
  /\ mpc = "startup"
  /\ g_config = DefaultConfig
  /\ current_config = DefaultConfig
  /\ config_mtx = 0
  /\ flag = FALSE
  /\ file \in InitialFiles
  /\ frame_mutex = 0
  /\ jpeg_buffer = <<>>
  /\ temp_jpeg_buffer = <<>>
  /\ wi = 0
  /\ frameNo = 0
  /\ lumas = <<0, 0, 0>>
  /\ buf = 0
  /\ cpc = [c \in Clients |-> "idle"]
  /\ req = [c \in Clients |-> NoRequest]
  /\ buffer_copy = [c \in Clients |-> <<>>]
  /\ alive = [c \in Clients |-> FALSE]
  /\ out = [c \in Clients |-> <<>>]
  /\ sent = [c \in Clients |-> NoChunk]
  /\ spc = "start"
  /\ loop = 0
  /\ is_running = FALSE
  /\ published = {}
  /\ persisted = "none"
  /\ closes = [c \in Clients |-> 0]


(* ---------------------------- main thread ------------------------------ *)

\* the process is alive: main() has neither returned nor called exit
Running == mpc \notin {"done"}

\* main(): load_config(config_path) at start-up
MStartupLoad ==
  /\ mpc = "startup"
  /\ g_config' = LoadConfig(prog, g_config, file)
  /\ mpc' = "check"
  /\ UNCHANGED <<prog, serverVars, config_mtx,
                 current_config, temp_jpeg_buffer, wi, frameNo, lumas, buf,
                 sharedVars, clientVars, histVars>>

\* mutant of MCheck: the local copy is taken only after a reload
MCheckSnapshotOnReloadOnly ==
  /\ mpc = "check"
  /\ mpc' = IF flag THEN "reload" ELSE "getframe"
  /\ UNCHANGED <<prog, serverVars, config_mtx,
                 g_config, current_config, temp_jpeg_buffer, wi, frameNo, lumas, buf,
                 sharedVars, clientVars, histVars>>

\* loop: if (g_reload_config_flag)
MCheck ==
  /\ mpc = "check"
  /\ mpc' = IF flag THEN "reload" ELSE "snaplock"
  /\ UNCHANGED <<prog, serverVars, config_mtx,
                 g_config, current_config, temp_jpeg_buffer, wi, frameNo, lumas, buf,
                 sharedVars, clientVars, histVars>>

\* loop: load_config(config_path) after the flag was seen set
MReload ==
  /\ mpc = "reload"
  /\ g_config' = LoadConfig(prog, g_config, file)
  /\ mpc' = "clear"
  /\ UNCHANGED <<prog, serverVars, config_mtx,
                 current_config, temp_jpeg_buffer, wi, frameNo, lumas, buf,
                 sharedVars, clientVars, histVars>>

\* loop: g_reload_config_flag = false
MClear ==
  /\ mpc = "clear"
  /\ flag' = FALSE
  /\ mpc' = "snaplock"
  /\ UNCHANGED <<prog, serverVars, config_mtx,
                 g_config, current_config, temp_jpeg_buffer, wi, frameNo, lumas, buf,
                 file, frame_mutex, jpeg_buffer, clientVars, histVars>>

\* loop: std::unique_lock<std::mutex> lock(g_config.mtx) before the local copy
MSnapLock ==
  /\ mpc = "snaplock"
  /\ config_mtx = 0
  /\ config_mtx' = MainId
  /\ mpc' = "snapshot"
  /\ UNCHANGED <<prog, serverVars, g_config, current_config, temp_jpeg_buffer, wi, frameNo,
                 lumas, buf, sharedVars, clientVars, histVars>>

\* mutant of MSnapshot: lamp_radius is left out of the copy
MSnapshotWithoutRadius ==
  /\ mpc = "snapshot"
  /\ current_config' = [g_config EXCEPT !.lamp_radius = current_config.lamp_radius]
  /\ config_mtx' = 0
  /\ mpc' = "getframe"
  /\ UNCHANGED <<prog, serverVars, g_config, temp_jpeg_buffer, wi, frameNo, lumas, buf,
                 sharedVars, clientVars, histVars>>

\* mutant of MSnapshot: g_config.mtx is kept after the copy
MSnapshotKeepsLock ==
  /\ mpc = "snapshot"
  /\ current_config' = g_config
  /\ config_mtx' = config_mtx
  /\ mpc' = "getframe"
  /\ UNCHANGED <<prog, serverVars, g_config, temp_jpeg_buffer, wi, frameNo, lumas, buf,
                 sharedVars, clientVars, histVars>>

\* loop: the local copy of g_config; g_config.mtx ends with the block
MSnapshot ==
  /\ mpc = "snapshot"
  /\ current_config' = g_config
  /\ config_mtx' = 0
  /\ mpc' = "getframe"
  /\ UNCHANGED <<prog, serverVars, g_config, temp_jpeg_buffer, wi, frameNo, lumas, buf,
                 sharedVars, clientVars, histVars>>

\* loop: getLastFrameBlocking yields a frame showing one of the triples; the frame is
\* analysed, annotated and encoded
MGetFrameFrom(triples) ==
  /\ mpc = "getframe"
  /\ frameNo < MaxFrames
  /\ \E l \in triples :
       /\ lumas' = l
       /\ temp_jpeg_buffer' = Encode(frameNo + 1, Classify(prog, current_config, l))
  /\ frameNo' = frameNo + 1
  /\ buf' = frameNo + 1
  /\ mpc' = "lock"
  /\ UNCHANGED <<prog, serverVars, config_mtx,
                 g_config, current_config, wi, sharedVars, clientVars, histVars>>

MGetFrame == MGetFrameFrom(LumaTriples)

\* loop: getLastFrameBlocking yields no buffer; the loop is left
MEndOfStream ==
  /\ mpc = "getframe"
  /\ mpc' = "shutdown"
  /\ UNCHANGED <<prog, serverVars, config_mtx,
                 g_config, current_config, temp_jpeg_buffer, wi, frameNo, lumas, buf,
                 sharedVars, clientVars, histVars>>

\* loop: std::unique_lock<std::mutex> lock(frame_mutex)
MLock ==
  /\ mpc = "lock"
  /\ frame_mutex = 0
  /\ frame_mutex' = MainId
  /\ mpc' = "write"
  /\ UNCHANGED <<prog, serverVars, config_mtx,
                 g_config, current_config, temp_jpeg_buffer, wi, frameNo, lumas, buf,
                 flag, file, jpeg_buffer, clientVars, histVars>>

\* a vector assignment dst = src after n elements: in place when the sizes agree,
\* into fresh storage otherwise
AssignedPrefix(src, dst, n) ==
  IF Len(dst) = Len(src)
  THEN [i \in 1..Len(src) |-> IF i <= n THEN src[i] ELSE dst[i]]
  ELSE SubSeq(src, 1, n)

\* loop: jpeg_buffer = temp_jpeg_buffer, one element at a time; the lock ends with the copy
MWrite ==
  /\ mpc = "write"
  /\ LET n == wi + 1 IN
       /\ jpeg_buffer' = AssignedPrefix(temp_jpeg_buffer, jpeg_buffer, n)
       /\ IF n >= Len(temp_jpeg_buffer)
          THEN /\ frame_mutex' = 0
               /\ published' = published \cup {temp_jpeg_buffer}
               /\ wi' = 0
               /\ mpc' = "release"
          ELSE /\ wi' = n
               /\ UNCHANGED <<frame_mutex, published, mpc>>
  /\ UNCHANGED <<prog, serverVars, config_mtx,
                 g_config, current_config, temp_jpeg_buffer, frameNo, lumas, buf,
                 flag, file, clientVars, persisted, closes>>

\* mutant of MReturnFrame: returning the frame empties jpeg_buffer
MReturnFrameClearsSlot ==
  /\ mpc = "release"
  /\ buf' = 0
  /\ jpeg_buffer' = <<>>
  /\ mpc' = "check"
  /\ UNCHANGED <<prog, serverVars, config_mtx, g_config, current_config, temp_jpeg_buffer, wi,
                 frameNo, lumas, flag, file, frame_mutex, clientVars, histVars>>

\* mutant of MReturnFrame: the cycle ends without returnFrame
MReturnFrameKeepsBuffer ==
  /\ mpc = "release"
  /\ buf' = buf
  /\ mpc' = "check"
  /\ UNCHANGED <<prog, serverVars, config_mtx,
                 g_config, current_config, temp_jpeg_buffer, wi, frameNo, lumas,
                 sharedVars, clientVars, histVars>>

\* loop: returnFrame(provider, buf)
MReturnFrame ==
  /\ mpc = "release"
  /\ buf' = 0
  /\ mpc' = "check"
  /\ UNCHANGED <<prog, serverVars, config_mtx,
                 g_config, current_config, temp_jpeg_buffer, wi, frameNo, lumas,
                 sharedVars, clientVars, histVars>>

\* main(), after the loop.  main.cpp: g_main_loop_quit(loop) with the pointer as it is
\* now; on NULL the call returns at once, on a loop it clears the running state.
\* example.cpp: main returns.
MShutdown ==
  /\ mpc = "shutdown"
  /\ IF prog = "main"
     THEN /\ is_running' = IF loop = 0 THEN is_running ELSE FALSE
          /\ mpc' = "join"
     ELSE /\ mpc' = "done"
          /\ UNCHANGED is_running
  /\ UNCHANGED <<prog, spc, loop, config_mtx, g_config, current_config, temp_jpeg_buffer, wi, frameNo,
                 lumas, buf, sharedVars, clientVars, histVars>>

\* main() of main.cpp: pthread_join(server_tid, NULL), closelog, return
MJoin ==
  /\ mpc = "join"
  /\ spc = "returned"
  /\ mpc' = "done"
  /\ UNCHANGED <<prog, serverVars, config_mtx,
                 g_config, current_config, temp_jpeg_buffer, wi, frameNo,
                 lumas, buf, sharedVars, clientVars, histVars>>

MainStep ==
  \/ MStartupLoad \/ MCheck \/ MReload \/ MClear \/ MSnapLock \/ MSnapshot \/ MGetFrame
  \/ MEndOfStream \/ MLock \/ MWrite \/ MReturnFrame \/ MShutdown \/ MJoin


(* ---------------------------- server thread ---------------------------- *)

\* server_thread_func: the service is created, bound to port 8080 and started;
\* MjpegServer (example.cpp): the socket listens and the accept loop is entered
SvStart ==
  /\ Running
  /\ spc = "start"
  /\ spc' = IF prog = "main" THEN "new" ELSE "running"
  /\ UNCHANGED <<prog, mainVars, config_mtx, sharedVars, clientVars, loop, is_running, histVars>>

\* server_thread_func: loop = g_main_loop_new(NULL, FALSE)
SvNewLoop ==
  /\ Running
  /\ spc = "new"
  /\ loop' = 1
  /\ is_running' = FALSE
  /\ spc' = "run"
  /\ UNCHANGED <<prog, mainVars, config_mtx, sharedVars, clientVars, histVars>>

\* server_thread_func: g_main_loop_run(loop) marks the loop running and iterates
SvRun ==
  /\ Running
  /\ spc = "run"
  /\ is_running' = TRUE
  /\ spc' = "running"
  /\ UNCHANGED <<prog, mainVars, config_mtx, sharedVars, clientVars, loop, histVars>>

\* server_thread_func: g_main_loop_run returns once the loop is no longer running,
\* and the thread ends
SvReturn ==
  /\ Running
  /\ prog = "main"
  /\ spc = "running"
  /\ ~is_running
  /\ spc' = "returned"
  /\ UNCHANGED <<prog, mainVars, config_mtx, sharedVars, clientVars, loop, is_running, histVars>>

ServerStep == SvStart \/ SvNewLoop \/ SvRun \/ SvReturn

\* the server dispatches incoming connections
Listening == spc = "running" /\ (prog = "main" => is_running)


(* --------------------------- client threads ---------------------------- *)

\* incoming_callback / accept: a thread is started for a new connection
\* (connections are numbered in the order they arrive)
Accept(c) ==
  /\ Running
  /\ Listening
  /\ cpc[c] = "idle"
  /\ \A d \in Clients : d < c => cpc[d] # "idle"
  /\ cpc' = [cpc EXCEPT ![c] = "read"]
  /\ alive' = [alive EXCEPT ![c] = TRUE]
  /\ UNCHANGED <<prog, serverVars, config_mtx,
                 mainVars, sharedVars, req, buffer_copy, out, sent, histVars>>

\* where the routing of client_thread_func (main.cpp) sends a request
RouteMain(r) ==
  CASE r.kind \in {"post", "post_empty", "post_nosep"} -> "save"
    [] r.kind = "stream" -> "st_header"
    [] OTHER -> "notfound"

\* where the routing of HandleClient (example.cpp) sends a request
RouteExample(r) ==
  CASE r.kind = "readfail" -> "close"
    [] r.kind = "options" -> "preflight"
    [] r.kind \in {"post", "post_empty", "post_nosep"} -> "save"
    [] r.kind = "stream" -> "st_header"
    [] OTHER -> "close"

\* the thread reads the request, one of rs, and routes it
ReadRequestFrom(c, rs) ==
  /\ Running
  /\ cpc[c] = "read"
  /\ \E r \in rs :
       /\ req' = [req EXCEPT ![c] = r]
       /\ cpc' = [cpc EXCEPT ![c] = IF prog = "main" THEN RouteMain(r) ELSE RouteExample(r)]
  /\ UNCHANGED <<prog, serverVars, config_mtx,
                 mainVars, sharedVars, buffer_copy, alive, out, sent, histVars>>

ReadRequest(c) == ReadRequestFrom(c, Requests)

\* no route matches (main.cpp): 404
NotFound(c) ==
  /\ Running
  /\ cpc[c] = "notfound"
  /\ out' = [out EXCEPT ![c] = Append(out[c], "404")]
  /\ cpc' = [cpc EXCEPT ![c] = "close"]
  /\ UNCHANGED <<prog, serverVars, config_mtx,
                 mainVars, sharedVars, req, buffer_copy, alive, sent, histVars>>

\* OPTIONS /save_config (example.cpp): 204 No Content
Preflight(c) ==
  /\ Running
  /\ cpc[c] = "preflight"
  /\ out' = [out EXCEPT ![c] = Append(out[c], "204")]
  /\ cpc' = [cpc EXCEPT ![c] = "close"]
  /\ UNCHANGED <<prog, serverVars, config_mtx,
                 mainVars, sharedVars, req, buffer_copy, alive, sent, histVars>>

\* where handle_save_config (main.cpp) goes after looking for the separator and the body
SaveMain(r) ==
  CASE r.kind = "post_nosep" -> <<"close", <<"400">>>>
    [] r.kind = "post_empty" -> <<"close", <<"400">>>>
    [] OTHER -> <<"up_open", <<>>>>

\* where the POST branch of HandleClient (example.cpp) goes after looking for the separator
SaveExample(r) ==
  CASE r.kind = "post_nosep" -> <<"close", <<>>>>
    [] OTHER -> <<"up_open", <<>>>>

\* the upload handler looks for the separator and the body; a refusal is answered at once
SaveDispatch(c) ==
  /\ Running
  /\ cpc[c] = "save"
  /\ LET d == IF prog = "main" THEN SaveMain(req[c]) ELSE SaveExample(req[c]) IN
       /\ cpc' = [cpc EXCEPT ![c] = d[1]]
       /\ out' = [out EXCEPT ![c] = out[c] \o d[2]]
  /\ UNCHANGED <<prog, serverVars, config_mtx,
                 mainVars, sharedVars, req, buffer_copy, alive, sent, histVars>>

\* the text an upload writes
UploadText(r) == IF r.kind = "post" THEN BodyText(r.body) ELSE <<>>

\* a write of text at offset 0 of a file holding old
Overlay(text, old) ==
  [i \in 1..(IF Len(text) > Len(old) THEN Len(text) ELSE Len(old)) |->
     IF i <= Len(text) THEN text[i] ELSE old[i]]

\* std::ofstream config_file(config_path): the file is created or truncated
UpOpen(c) ==
  /\ Running
  /\ cpc[c] = "up_open"
  /\ file' = [exists |-> TRUE, text |-> <<>>]
  /\ cpc' = [cpc EXCEPT ![c] = "up_write"]
  /\ UNCHANGED <<prog, serverVars, config_mtx, mainVars, flag, frame_mutex, jpeg_buffer,
                 req, buffer_copy, alive, out, sent, histVars>>

\* std::ofstream config_file(config_path) fails (the file cannot be opened for
\* writing): the stream is in its failed state, the unchecked << and close() do
\* nothing, and the handler goes on to set the flag
UpOpenFails(c) ==
  /\ Running
  /\ cpc[c] = "up_open"
  /\ cpc' = [cpc EXCEPT ![c] = "up_flag"]
  /\ UNCHANGED <<prog, serverVars, config_mtx,
                 mainVars, sharedVars, req, buffer_copy, alive, out, sent, histVars>>

\* config_file << json_body; config_file.close(): the body reaches the file
UpWrite(c) ==
  /\ Running
  /\ cpc[c] = "up_write"
  /\ file' = [exists |-> TRUE, text |-> Overlay(UploadText(req[c]), file.text)]
  /\ persisted' = IF req[c].kind = "post" THEN req[c].body ELSE "empty"
  /\ cpc' = [cpc EXCEPT ![c] = "up_flag"]
  /\ UNCHANGED <<prog, serverVars, config_mtx, mainVars, flag, frame_mutex, jpeg_buffer,
                 req, buffer_copy, alive, out, sent, published, closes>>

\* g_reload_config_flag = true
UpSetFlag(c) ==
  /\ Running
  /\ cpc[c] = "up_flag"
  /\ flag' = TRUE
  /\ cpc' = [cpc EXCEPT ![c] = "up_resp"]
  /\ UNCHANGED <<prog, serverVars, config_mtx, mainVars, file, frame_mutex, jpeg_buffer,
                 req, buffer_copy, alive, out, sent, histVars>>

\* the 200 response of the upload handler
UpRespond(c) ==
  /\ Running
  /\ cpc[c] = "up_resp"
  /\ out' = [out EXCEPT ![c] = Append(out[c], "200")]
  /\ cpc' = [cpc EXCEPT ![c] = "close"]
  /\ UNCHANGED <<prog, serverVars, config_mtx,
                 mainVars, sharedVars, req, buffer_copy, alive, sent, histVars>>

\* mutant of Close: the thread goes on after closing and reaches the close again
CloseAndGoOn(c) ==
  /\ Running
  /\ cpc[c] = "close"
  /\ closes[c] < 2
  /\ cpc' = [cpc EXCEPT ![c] = IF closes[c] = 0 THEN "close" ELSE "closed"]
  /\ alive' = [alive EXCEPT ![c] = FALSE]
  /\ req' = [req EXCEPT ![c] = NoRequest]
  /\ buffer_copy' = [buffer_copy EXCEPT ![c] = <<>>]
  /\ out' = [out EXCEPT ![c] = <<>>]
  /\ sent' = [sent EXCEPT ![c] = NoChunk]
  /\ closes' = [closes EXCEPT ![c] = @ + 1]
  /\ UNCHANGED <<prog, serverVars, config_mtx, mainVars, sharedVars, published, persisted>>

\* the connection is closed and the thread ends; its locals are gone
Close(c) ==
  /\ Running
  /\ cpc[c] = "close"
  /\ cpc' = [cpc EXCEPT ![c] = "closed"]
  /\ alive' = [alive EXCEPT ![c] = FALSE]
  /\ req' = [req EXCEPT ![c] = NoRequest]
  /\ buffer_copy' = [buffer_copy EXCEPT ![c] = <<>>]
  /\ out' = [out EXCEPT ![c] = <<>>]
  /\ sent' = [sent EXCEPT ![c] = NoChunk]
  /\ closes' = [closes EXCEPT ![c] = @ + 1]
  /\ UNCHANGED <<prog, serverVars, config_mtx, mainVars, sharedVars, published, persisted>>


\* handle_mjpeg_stream: the multipart header is written
StHeader(c) ==
  /\ Running
  /\ cpc[c] = "st_header"
  /\ out' = [out EXCEPT ![c] = Append(out[c], "200 multipart")]
  /\ cpc' = [cpc EXCEPT ![c] = "st_lock"]
  /\ UNCHANGED <<prog, serverVars, config_mtx,
                 mainVars, sharedVars, req, buffer_copy, alive, sent, histVars>>

\* mutant of StLock: the reader does not wait for frame_mutex
StLockWithoutWaiting(c) ==
  /\ Running
  /\ cpc[c] = "st_lock"
  /\ frame_mutex' = frame_mutex
  /\ cpc' = [cpc EXCEPT ![c] = "st_copy"]
  /\ UNCHANGED <<prog, serverVars, config_mtx, mainVars, flag, file, jpeg_buffer,
                 req, buffer_copy, alive, out, sent, histVars>>

\* stream loop: std::unique_lock<std::mutex> lock(frame_mutex)
StLock(c) ==
  /\ Running
  /\ cpc[c] = "st_lock"
  /\ frame_mutex = 0
  /\ frame_mutex' = c
  /\ cpc' = [cpc EXCEPT ![c] = "st_copy"]
  /\ UNCHANGED <<prog, serverVars, config_mtx, mainVars, flag, file, jpeg_buffer,
                 req, buffer_copy, alive, out, sent, histVars>>


\* mutant of StCopy: the lock is kept after the copy
StCopyKeepsLock(c) ==
  /\ Running
  /\ cpc[c] = "st_copy"
  /\ frame_mutex' = frame_mutex
  /\ IF jpeg_buffer = <<>>
     THEN /\ cpc' = [cpc EXCEPT ![c] = "st_retry"]
          /\ buffer_copy' = [buffer_copy EXCEPT ![c] = <<>>]
     ELSE /\ cpc' = [cpc EXCEPT ![c] = "st_send"]
          /\ buffer_copy' = [buffer_copy EXCEPT ![c] = jpeg_buffer]
  /\ UNCHANGED <<prog, serverVars, config_mtx, mainVars, flag, file, jpeg_buffer,
                 req, alive, out, sent, histVars>>

\* mutant of StCopy: an empty jpeg_buffer is copied and sent like a frame
StCopySendsEmpty(c) ==
  /\ Running
  /\ cpc[c] = "st_copy"
  /\ frame_mutex' = 0
  /\ cpc' = [cpc EXCEPT ![c] = "st_send"]
  /\ buffer_copy' = [buffer_copy EXCEPT ![c] = jpeg_buffer]
  /\ UNCHANGED <<prog, serverVars, config_mtx, mainVars, flag, file, jpeg_buffer,
                 req, alive, out, sent, histVars>>

\* mutant of StCopy: the reader copies any of the frames published so far
StCopyAnyPublished(c) ==
  /\ Running
  /\ cpc[c] = "st_copy"
  /\ frame_mutex' = 0
  /\ IF jpeg_buffer = <<>>
     THEN /\ cpc' = [cpc EXCEPT ![c] = "st_retry"]
          /\ buffer_copy' = [buffer_copy EXCEPT ![c] = <<>>]
     ELSE /\ cpc' = [cpc EXCEPT ![c] = "st_send"]
          /\ \E f \in published \cup {jpeg_buffer} :
               buffer_copy' = [buffer_copy EXCEPT ![c] = f]
  /\ UNCHANGED <<prog, serverVars, config_mtx, mainVars, flag, file, jpeg_buffer,
                 req, alive, out, sent, histVars>>

\* mutant of StCopy: the reader takes the frame out of jpeg_buffer
StCopyMovesFrame(c) ==
  /\ Running
  /\ cpc[c] = "st_copy"
  /\ frame_mutex' = 0
  /\ IF jpeg_buffer = <<>>
     THEN /\ cpc' = [cpc EXCEPT ![c] = "st_retry"]
          /\ buffer_copy' = [buffer_copy EXCEPT ![c] = <<>>]
     ELSE /\ cpc' = [cpc EXCEPT ![c] = "st_send"]
          /\ buffer_copy' = [buffer_copy EXCEPT ![c] = jpeg_buffer]
  /\ jpeg_buffer' = <<>>
  /\ UNCHANGED <<prog, serverVars, config_mtx, mainVars, flag, file,
                 req, alive, out, sent, histVars>>

\* stream loop, lock held: an empty jpeg_buffer sends the thread to its 10 ms wait,
\* otherwise buffer_copy = jpeg_buffer; the lock ends with the block
StCopy(c) ==
  /\ Running
  /\ cpc[c] = "st_copy"
  /\ frame_mutex' = 0
  /\ IF jpeg_buffer = <<>>
     THEN /\ cpc' = [cpc EXCEPT ![c] = "st_retry"]
          /\ buffer_copy' = [buffer_copy EXCEPT ![c] = <<>>]
     ELSE /\ cpc' = [cpc EXCEPT ![c] = "st_send"]
          /\ buffer_copy' = [buffer_copy EXCEPT ![c] = jpeg_buffer]
  /\ UNCHANGED <<prog, serverVars, config_mtx, mainVars, flag, file, jpeg_buffer,
                 req, alive, out, sent, histVars>>

\* stream loop: g_usleep(10000) after an empty buffer
StRetry(c) ==
  /\ Running
  /\ cpc[c] = "st_retry"
  /\ cpc' = [cpc EXCEPT ![c] = "st_lock"]
  /\ UNCHANGED <<prog, serverVars, config_mtx,
                 mainVars, sharedVars, req, buffer_copy, alive, out, sent, histVars>>

\* the chunk a stream thread writes for its copy: the frame header with boundary,
\* content type and Content-Length, the bytes of the copy, and the closing CR LF
Chunk(copy) ==
  [boundary |-> "--frame", type |-> "image/jpeg", length |-> Len(copy),
   payload |-> copy, delimiter |-> "CRLF"]

\* mutant of StSend: the payload is written from jpeg_buffer itself
StSendFromSlot(c) ==
  /\ Running
  /\ cpc[c] = "st_send"
  /\ IF alive[c]
     THEN /\ sent' = [sent EXCEPT ![c] = [Chunk(buffer_copy[c]) EXCEPT !.payload = jpeg_buffer]]
          /\ cpc' = [cpc EXCEPT ![c] = "st_sleep"]
     ELSE /\ cpc' = [cpc EXCEPT ![c] = "close"]
          /\ UNCHANGED sent
  /\ buffer_copy' = [buffer_copy EXCEPT ![c] = <<>>]
  /\ UNCHANGED <<prog, serverVars, config_mtx, mainVars, sharedVars, req, alive, out, histVars>>

\* stream loop: frame header, payload and delimiter are written; a failed write ends the
\* loop; buffer_copy lives for one iteration
StSend(c) ==
  /\ Running
  /\ cpc[c] = "st_send"
  /\ IF alive[c]
     THEN /\ sent' = [sent EXCEPT ![c] = Chunk(buffer_copy[c])]
          /\ cpc' = [cpc EXCEPT ![c] = "st_sleep"]
     ELSE /\ cpc' = [cpc EXCEPT ![c] = "close"]
          /\ UNCHANGED sent
  /\ buffer_copy' = [buffer_copy EXCEPT ![c] = <<>>]
  /\ UNCHANGED <<prog, serverVars, config_mtx, mainVars, sharedVars, req, alive, out, histVars>>

\* stream loop: g_usleep(33000) between frames
StSleep(c) ==
  /\ Running
  /\ cpc[c] = "st_sleep"
  /\ cpc' = [cpc EXCEPT ![c] = "st_lock"]
  /\ UNCHANGED <<prog, serverVars, config_mtx,
                 mainVars, sharedVars, req, buffer_copy, alive, out, sent, histVars>>

StreamPcs == {"st_header", "st_lock", "st_copy", "st_retry", "st_send", "st_sleep"}

\* the peer of a streaming connection goes away
Disconnect(c) ==
  /\ Running
  /\ cpc[c] \in StreamPcs
  /\ alive[c]
  /\ alive' = [alive EXCEPT ![c] = FALSE]
  /\ UNCHANGED <<prog, serverVars, config_mtx,
                 mainVars, sharedVars, cpc, req, buffer_copy, out, sent, histVars>>

ClientStep(c) ==
  \/ Accept(c) \/ ReadRequest(c) \/ NotFound(c) \/ Preflight(c) \/ SaveDispatch(c)
  \/ UpOpen(c) \/ UpOpenFails(c) \/ UpWrite(c) \/ UpSetFlag(c) \/ UpRespond(c) \/ Close(c)
  \/ StHeader(c) \/ StLock(c) \/ StCopy(c) \/ StRetry(c) \/ StSend(c) \/ StSleep(c)
  \/ Disconnect(c)

Next == MainStep \/ ServerStep \/ \E c \in Clients : ClientStep(c)

Spec == Init /\ [][Next]_vars


(* ------------------------- viewers only -------------------------------- *)

\* The system when every connection asks for the stream: no upload, so no reload.
StreamRequests == { r \in Requests : r.kind = "stream" }

ViewRead(c) == ReadRequestFrom(c, StreamRequests)

ViewMainStep ==
  \/ MStartupLoad \/ MCheck \/ MSnapLock \/ MSnapshot \/ MGetFrame
  \/ MEndOfStream \/ MLock \/ MWrite \/ MReturnFrame \/ MShutdown \/ MJoin

ViewClientStep(c) ==
  \/ Accept(c) \/ ViewRead(c) \/ Close(c)
  \/ StHeader(c) \/ StLock(c) \/ StCopy(c) \/ StRetry(c) \/ StSend(c) \/ StSleep(c)
  \/ Disconnect(c)

ViewNext == ViewMainStep \/ ServerStep \/ \E c \in Clients : ViewClientStep(c)

(* ------------------------------ fairness ------------------------------- *)

\* The main thread always runs, except that getLastFrameBlocking may block for ever;
\* a thread that holds frame_mutex is copying memory and finishes; a thread waiting
\* for frame_mutex gets it when it is free again and again (the holders sleep 10 or
\* 33 ms between two acquisitions).  Nothing is assumed about a stream thread's
\* writes and waits: it may stall in any of them for ever.
MainFair ==
  /\ WF_vars(MStartupLoad \/ MCheck \/ MReload \/ MClear \/ MSnapLock \/ MSnapshot
             \/ MWrite \/ MReturnFrame \/ MShutdown \/ MJoin)
  /\ SF_vars(MLock)

\* the server thread always runs
ServerFair == WF_vars(SvStart \/ SvNewLoop \/ SvRun \/ SvReturn)

FairViewSpec ==
  /\ Init /\ [][ViewNext]_vars
  /\ MainFair /\ ServerFair /\ \A c \in Clients : WF_vars(StCopy(c))

\* client c's thread keeps running and its peer keeps reading
ClientRuns(c) ==
  /\ WF_vars(StHeader(c) \/ StCopy(c) \/ StRetry(c) \/ StSend(c) \/ StSleep(c))
  /\ SF_vars(StLock(c))

(* ------------------------ classification only ------------------------- *)

\* The loop alone, over configurations that config.json can bring into g_config
\* (load_config takes any integers) and over frames of every brightness pattern.

\* master regions: two inside the 1280x720 frame, six that are not
ClassifyRois ==
  { <<0, 0, 100, 100>>, <<385, 207, 82, 315>>,
    <<0, 0, 0, 100>>, <<0, 0, 100, -1>>, <<-1, 0, 100, 100>>, <<0, -1, 100, 100>>,
    <<1200, 0, 100, 100>>, <<0, 700, 100, 100>> }

\* thresholds, and the x offset of the red lamp: inside the region, or left of it
ClassifyThresholds == {-1, 50, 200}
ClassifyRedX == {10, -5}

ClassifyConfigs ==
  { [ master_roi_x |-> r[1], master_roi_y |-> r[2],
      master_roi_width |-> r[3], master_roi_height |-> r[4],
      red_x |-> x, red_y |-> 10, yellow_x |-> 10, yellow_y |-> 40,
      green_x |-> 10, green_y |-> 70, lamp_radius |-> 5,
      min_brightness_threshold |-> t ] :
    r \in ClassifyRois, t \in ClassifyThresholds, x \in ClassifyRedX }

\* mean luminances: dark, at a threshold, just above it, bright
LumaValues == {0, 50, 51, 200}
ClassifyTriples == { <<a, b, c>> : a \in LumaValues, b \in LumaValues, c \in LumaValues }

\* the state at the top of the loop, the reload flag clear
ClassifyInit ==
  /\ prog \in Progs
  /\ mpc = "check"
  /\ g_config \in ClassifyConfigs
  /\ current_config = DefaultConfig
  /\ config_mtx = 0
  /\ flag = FALSE
  /\ file = [exists |-> FALSE, text |-> <<>>]
  /\ frame_mutex = 0
  /\ jpeg_buffer = <<>>
  /\ temp_jpeg_buffer = <<>>
  /\ wi = 0
  /\ frameNo = 0
  /\ lumas = <<0, 0, 0>>
  /\ buf = 0
  /\ cpc = [c \in Clients |-> "idle"]
  /\ req = [c \in Clients |-> NoRequest]
  /\ buffer_copy = [c \in Clients |-> <<>>]
  /\ alive = [c \in Clients |-> FALSE]
  /\ out = [c \in Clients |-> <<>>]
  /\ sent = [c \in Clients |-> NoChunk]
  /\ spc = "running"
  /\ loop = IF prog = "main" THEN 1 ELSE 0
  /\ is_running = (prog = "main")
  /\ published = {}
  /\ persisted = "none"
  /\ closes = [c \in Clients |-> 0]

MClassifyFrame == MGetFrameFrom(ClassifyTriples)

ClassifyNext ==
  \/ MCheck \/ MSnapLock \/ MSnapshot \/ MClassifyFrame \/ MEndOfStream
  \/ MLock \/ MWrite \/ MReturnFrame \/ MShutdown \/ MJoin \/ SvReturn

ClassifySpec == ClassifyInit /\ [][ClassifyNext]_vars /\ MainFair /\ ServerFair

\* the loop holds a frame it has classified and encoded
InCycle == mpc \in {"lock", "write", "release"}

\* the label the marker of the encoded frame shows
current_state == IF temp_jpeg_buffer = <<>> THEN "UNKNOWN" ELSE temp_jpeg_buffer[1][2]

(* ------------------------------- claims -------------------------------- *)

\* C1: every byte sequence a stream thread holds as its copy of the frame, or has
\* written as a chunk's payload, is one complete frame the loop published before;
\* never a mix of two frames, never a partly written one.
C1_ReadCopyIsOnePublishedFrame ==
  \A c \in Clients :
    /\ buffer_copy[c] # <<>> => buffer_copy[c] \in published
    /\ sent[c].payload # <<>> => sent[c].payload \in published

\* C1 witness: a reader holds its copy while jpeg_buffer is half overwritten by the
\* next frame.
C1_Witness ==
  \E c \in Clients :
    /\ cpc[c] = "st_send"
    /\ buffer_copy[c] \in published
    /\ mpc = "write"
    /\ Len(jpeg_buffer) = FrameLen
    /\ jpeg_buffer \notin published

\* C2: whatever the stream threads do, stalled or not, the loop that waits for
\* frame_mutex gets it and publishes; and a stream thread that keeps running, with a
\* peer that keeps reading, gets to write a frame once one is published, unless the
\* process has ended.
C2_LoopNeverBlocksOnConsumers ==
  /\ (mpc = "lock") ~> (mpc = "release")
  /\ \A c \in Clients :
       ClientRuns(c) =>
         ((cpc[c] = "st_lock" /\ jpeg_buffer # <<>>) ~> (cpc[c] = "st_send" \/ mpc = "done"))

\* C2 witness: one stream thread still sits in the write of the first frame while the
\* loop has published the second and another stream thread has copied it.
C2_Witness ==
  \E c, d \in Clients :
    /\ cpc[c] = "st_send" /\ cpc[d] = "st_send"
    /\ buffer_copy[c] # <<>> /\ buffer_copy[d] # <<>>
    /\ buffer_copy[c][1][1] = 1
    /\ buffer_copy[d][1][1] = 2


(* ---------------------- claims about configuration --------------------- *)

UploadPcs == {"save", "up_open", "up_write", "up_flag", "up_resp"}

\* the file a complete body b makes (the empty body makes an empty file)
BodyFile(b) == [exists |-> TRUE, text |-> IF b \in BodyIds THEN BodyText(b) ELSE <<>>]

\* the main thread runs load_config in this step
LoadStep == mpc \in {"startup", "reload"} /\ mpc' # mpc

\* C3: no set of the flag is lost.  When no upload is in progress, the flag is clear
\* and the loop is not about to load, g_config already reflects config.json
\* (loading the file once more would change nothing), so the snapshots that follow
\* reflect the most recently persisted document.
C3_NoSetOfTheFlagIsLost ==
  ( /\ \A c \in Clients : cpc[c] \notin UploadPcs
    /\ flag = FALSE
    /\ mpc \notin {"startup", "reload"} )
  => g_config = LoadConfig(prog, g_config, file)

\* C4: every reload follows one check that saw the flag set, however many uploads
\* had set it, and that one reload is made with the latest document an upload has
\* stored in config.json.
C4_OneReloadWithLatestAccepted ==
  [][ /\ (mpc' = "reload" /\ mpc # "reload") => (mpc = "check" /\ flag)
      /\ (mpc = "reload" /\ mpc' # mpc /\ persisted # "none") =>
           g_config' = LoadConfig(prog, g_config, BodyFile(persisted)) ]_vars

\* C5: the steps of an upload thread whose body is malformed (not an object, a field
\* that is no integer, or a master region without extent) change neither config.json
\* nor the flag nor g_config, and its answer is a client error.
C5_MalformedUploadChangesNothing ==
  [][ LET Malformed(j) ==
            \/ j.kind # "object"
            \/ \E k \in DOMAIN j.obj : j.obj[k].t # "int"
            \/ \E k \in DOMAIN j.obj \cap {"master_roi_width", "master_roi_height"} :
                 j.obj[k].v <= 0
      IN \A c \in Clients :
           ( /\ cpc[c] \in UploadPcs
             /\ cpc'[c] # cpc[c]
             /\ req[c].kind = "post"
             /\ Malformed(Json(req[c].body)) )
           => /\ file' = file
              /\ flag' = flag
              /\ g_config' = g_config
              /\ cpc'[c] = "close" => out'[c] = <<"400">> ]_vars

\* C6: load_config of a malformed document (unparseable text, a non-object, a field
\* of the wrong type) leaves every field of g_config as it was.
C6_MalformedLoadLeavesConfig ==
  [][ ( /\ LoadStep
        /\ file.exists
        /\ LET j == ParseText(file.text) IN
             \/ j.kind # "object"
             \/ \E k \in DOMAIN j.obj : j.obj[k].t # "int" )
      => g_config' = g_config ]_vars

\* the documents that load completely
WholeBodies == { b \in BodyIds : \A k \in DOMAIN Json(b).obj : Json(b).obj[k].t = "int" }

\* the configurations whole documents make of the default
RECURSIVE WholeMerges(_, _)
WholeMerges(p, S) ==
  LET T == S \cup { LoadConfig(p, cfg, BodyFile(b)) : cfg \in S, b \in WholeBodies } IN
  IF T = S THEN S ELSE WholeMerges(p, T)

\* C7: g_config and the loop's snapshot are always the default merged with whole
\* documents, never with a part of one; with no config.json they are the default.
C7_ConfigIsAllOrNothing ==
  /\ g_config \in WholeMerges(prog, {DefaultConfig})
  /\ current_config \in WholeMerges(prog, {DefaultConfig})
  /\ ~file.exists => g_config = DefaultConfig

\* C8: g_config is fully valid in every state, and so is the loop's snapshot: a master
\* region with extent at a non-negative origin, every lamp offset inside it.
C8_StoredConfigIsValid ==
  LET Valid(cfg) ==
        /\ cfg["master_roi_width"] > 0
        /\ cfg["master_roi_height"] > 0
        /\ cfg["master_roi_x"] >= 0
        /\ cfg["master_roi_y"] >= 0
        /\ \A i \in 1..3 :
             /\ 0 <= LampX(cfg, i) /\ LampX(cfg, i) < cfg["master_roi_width"]
             /\ 0 <= LampY(cfg, i) /\ LampY(cfg, i) < cfg["master_roi_height"]
  IN Valid(g_config) /\ Valid(current_config)

\* C9: load_config of a document whose fields are all integers gives each field in
\* the document the document's value and leaves every omitted field as it was.
C9_OmittedFieldsKeepTheirValue ==
  [][ ( /\ LoadStep
        /\ file.exists
        /\ ParseText(file.text).kind = "object"
        /\ \A k \in DOMAIN ParseText(file.text).obj : ParseText(file.text).obj[k].t = "int" )
      => LET obj == ParseText(file.text).obj IN
           \A k \in FieldSet :
             g_config'[k] = IF k \in DOMAIN obj THEN obj[k].v ELSE g_config[k] ]_vars

\* C10: a thread that handled a request on the upload route has written one status
\* line, 200 or 400, when it comes to close the connection.
C10_UploadAlwaysAnswered ==
  \A c \in Clients :
    (cpc[c] = "close" /\ req[c].kind \in {"post", "post_empty", "post_nosep"})
    => out[c] \in {<<"200">>, <<"400">>}

\* C11: an upload whose body is empty or missing (no header/body separator) is
\* refused in one step with a client error: config.json, the flag and g_config are
\* left as they were, and the process goes on.
C11_EmptyUploadChangesNothing ==
  [][ \A c \in Clients :
        ( /\ cpc[c] \in UploadPcs
          /\ cpc'[c] # cpc[c]
          /\ req[c].kind \in {"post_empty", "post_nosep"} )
        => /\ file' = file
           /\ flag' = flag
           /\ g_config' = g_config
           /\ mpc' = mpc
           /\ cpc'[c] = "close"
           /\ out'[c] = <<"400">> ]_vars

\* C12: the flag is set only by the step of an upload thread that has stored its
\* whole body in config.json; a thread comes to its 200 response only by setting the
\* flag, and writes 200 only there; so a reload, which follows a set of the flag,
\* finds a config.json that an upload has stored.
C12_FlagAfterStoreAnswerAfterFlag ==
  [][ /\ (flag' /\ ~flag) =>
           \E c \in Clients : cpc[c] = "up_flag" /\ cpc'[c] = "up_resp"
      /\ \A c \in Clients :
           /\ (cpc'[c] = "up_flag" /\ cpc[c] # "up_flag") =>
                /\ cpc[c] = "up_write"
                /\ file'.exists
                /\ SubSeq(file'.text, 1, Len(UploadText(req[c]))) = UploadText(req[c])
           /\ (cpc'[c] = "up_resp" /\ cpc[c] # "up_resp") => (cpc[c] = "up_flag" /\ flag')
           /\ (out'[c] # out[c] /\ \E i \in 1..Len(out'[c]) : out'[c][i] = "200") => cpc[c] = "up_resp"
      /\ (mpc = "reload" /\ mpc' # mpc) => (file.exists /\ persisted # "none") ]_vars

\* C13: the thread that read a pre-flight (OPTIONS) request answers it in its next
\* step with the 204 acknowledgment and nothing else, and none of its steps changes
\* config.json, g_config, the flag or jpeg_buffer.
C13_PreflightAcknowledgedNoChange ==
  [][ \A c \in Clients :
        (req[c].kind = "options" /\ cpc'[c] # cpc[c])
        => /\ file' = file
           /\ flag' = flag
           /\ g_config' = g_config
           /\ jpeg_buffer' = jpeg_buffer
           /\ cpc[c] # "close" => (cpc'[c] = "close" /\ out'[c] = <<"204">>) ]_vars


(* ---------------------- claims about classification -------------------- *)

\* C14: when the master region lies inside the frame and no sampled lamp is brighter
\* than the threshold, the frame is marked UNKNOWN, whichever lamp is the brightest
\* (a frame that is dark at all three lamps among them).
C14_BelowThresholdIsUnknown ==
  LET cfg == current_config IN
  ( /\ InCycle
    /\ cfg["master_roi_width"] > 0 /\ cfg["master_roi_height"] > 0
    /\ cfg["master_roi_x"] >= 0 /\ cfg["master_roi_y"] >= 0
    /\ cfg["master_roi_x"] + cfg["master_roi_width"] <= FrameWidth
    /\ cfg["master_roi_y"] + cfg["master_roi_height"] <= FrameHeight
    /\ \A i \in 1..3 : ~LampSkipped(prog, cfg, i) => lumas[i] <= Threshold(prog, cfg) )
  => current_state = "UNKNOWN"

\* C14 witness: the yellow lamp is the brightest, exactly at the threshold of 50, and
\* the frame is marked UNKNOWN.
C14_Witness ==
  /\ InCycle
  /\ prog = "main"
  /\ ~RoiInvalid(current_config)
  /\ current_config["min_brightness_threshold"] = 50
  /\ lumas = <<0, 50, 0>>
  /\ current_state = "UNKNOWN"

\* C15: when the master region lies inside the frame and one sampled lamp is strictly
\* brighter than every other sampled lamp and than the threshold, the frame is marked
\* with that lamp's label: lamp 0 RED, lamp 1 YELLOW, lamp 2 GREEN.
C15_StrictMaximumGivesItsLabel ==
  LET cfg == current_config IN
  \A i \in 1..3 :
    ( /\ InCycle
      /\ cfg["master_roi_width"] > 0 /\ cfg["master_roi_height"] > 0
      /\ cfg["master_roi_x"] >= 0 /\ cfg["master_roi_y"] >= 0
      /\ cfg["master_roi_x"] + cfg["master_roi_width"] <= FrameWidth
      /\ cfg["master_roi_y"] + cfg["master_roi_height"] <= FrameHeight
      /\ ~LampSkipped(prog, cfg, i)
      /\ lumas[i] > Threshold(prog, cfg)
      /\ \A j \in 1..3 \ {i} : ~LampSkipped(prog, cfg, j) => lumas[i] > lumas[j] )
    => current_state = <<"RED", "YELLOW", "GREEN">>[i]

\* C15 witness: all three lamps are lit, two of them above the threshold of 50, the
\* green one the brightest, and the frame is marked GREEN.
C15_Witness ==
  /\ InCycle
  /\ ~RoiInvalid(current_config)
  /\ Threshold(prog, current_config) = 50
  /\ lumas = <<51, 50, 200>>
  /\ current_state = "GREEN"

\* C16: when the master region lies inside the frame and two or three sampled lamps
\* share the greatest luminance, above the threshold, the frame is marked with the
\* label of the one with the lowest index.
C16_TieGoesToLowestIndex ==
  LET cfg == current_config
      S == { i \in 1..3 : ~LampSkipped(prog, cfg, i) }
      M == { i \in S : \A j \in S : lumas[i] >= lumas[j] }
  IN
  ( /\ InCycle
    /\ cfg["master_roi_width"] > 0 /\ cfg["master_roi_height"] > 0
    /\ cfg["master_roi_x"] >= 0 /\ cfg["master_roi_y"] >= 0
    /\ cfg["master_roi_x"] + cfg["master_roi_width"] <= FrameWidth
    /\ cfg["master_roi_y"] + cfg["master_roi_height"] <= FrameHeight
    /\ Cardinality(M) >= 2
    /\ \A i \in M : lumas[i] > Threshold(prog, cfg) )
  => current_state = <<"RED", "YELLOW", "GREEN">>[CHOOSE i \in M : \A j \in M : i <= j]

\* C17: when the master region of the snapshot is not inside the frame (no extent, a
\* negative origin, or a far edge beyond the frame), the frame in hand is encoded with
\* the UNKNOWN marker whatever it shows, and the cycle runs to its end: that frame
\* is published, the raw frame is returned and the loop is at its top again.
C17_RegionOutsideFrameIsUnknown ==
  /\ [](LET cfg == current_config IN
          ( /\ InCycle
            /\ \/ cfg["master_roi_width"] <= 0 \/ cfg["master_roi_height"] <= 0
               \/ cfg["master_roi_x"] < 0 \/ cfg["master_roi_y"] < 0
               \/ cfg["master_roi_x"] + cfg["master_roi_width"] > FrameWidth
               \/ cfg["master_roi_y"] + cfg["master_roi_height"] > FrameHeight )
          => (temp_jpeg_buffer = Encode(frameNo, "UNKNOWN") /\ buf = frameNo))
  /\ (LET cfg == current_config IN
        /\ mpc = "lock"
        /\ \/ cfg["master_roi_width"] <= 0 \/ cfg["master_roi_height"] <= 0
           \/ cfg["master_roi_x"] < 0 \/ cfg["master_roi_y"] < 0
           \/ cfg["master_roi_x"] + cfg["master_roi_width"] > FrameWidth
           \/ cfg["master_roi_y"] + cfg["master_roi_height"] > FrameHeight)
     ~> ( /\ mpc = "check"
          /\ buf = 0
          /\ jpeg_buffer = Encode(frameNo, "UNKNOWN")
          /\ jpeg_buffer \in published )

\* C17 witness: the region reaches beyond the right edge of the frame, the red lamp is
\* bright, and the cycle has ended with the UNKNOWN frame published and the raw frame
\* returned.
C17_Witness ==
  /\ mpc = "check"
  /\ frameNo = 1
  /\ buf = 0
  /\ current_config["master_roi_x"] + current_config["master_roi_width"] > FrameWidth
  /\ lumas = <<200, 0, 0>>
  /\ Threshold(prog, current_config) < 200
  /\ jpeg_buffer = Encode(1, "UNKNOWN")
  /\ jpeg_buffer \in published


(* ------------------------ claims about the stream ---------------------- *)

\* C18: a stream thread leaves its loop only from a write that failed; and once the
\* peer is gone, whatever the state, a thread that keeps running comes to fail a
\* write, leaves the loop and closes the connection (unless the process has ended).
C18_StreamEndsOnlyAndAlwaysOnFailedWrite ==
  /\ [][ \A c \in Clients :
           (cpc[c] \in StreamPcs /\ cpc'[c] \notin StreamPcs)
           => (cpc[c] = "st_send" /\ ~alive[c] /\ cpc'[c] = "close") ]_vars
  /\ \A c \in Clients :
       (ClientRuns(c) /\ WF_vars(Close(c)))
       => ((cpc[c] \in StreamPcs /\ ~alive[c]) ~> (cpc[c] = "closed" \/ mpc = "done"))

\* C19: while nothing has been published, a stream thread has written its multipart
\* header and no chunk, is not in a write of a chunk and stays in its loop; and a
\* thread that keeps running, once a frame is published, comes to write a chunk
\* (unless its peer goes away or the process ends).
C19_WaitsForTheFirstFrame ==
  /\ [](published = {} =>
          \A c \in Clients :
            cpc[c] \in StreamPcs =>
              /\ sent[c] = NoChunk
              /\ cpc[c] # "st_send"
              /\ out[c] \in {<<>>, <<"200 multipart">>})
  /\ [][ \A c \in Clients :
           (published = {} /\ cpc[c] \in StreamPcs) => cpc'[c] \in StreamPcs ]_vars
  /\ \A c \in Clients :
       ClientRuns(c)
       => ((cpc[c] \in StreamPcs /\ published # {})
             ~> (sent[c] # NoChunk \/ ~alive[c] \/ mpc = "done"))

\* C19 witness: a stream thread found jpeg_buffer empty and is in its 10 ms wait
\* while the loop is writing the first frame into jpeg_buffer.
C19_Witness ==
  \E c \in Clients :
    /\ cpc[c] = "st_retry"
    /\ alive[c]
    /\ out[c] = <<"200 multipart">>
    /\ published = {}
    /\ mpc = "write"
    /\ jpeg_buffer # <<>>


(* ---------------------- claims about the raw frame --------------------- *)

\* C20: the loop holds a raw frame exactly while it classifies, encodes and publishes
\* it, and that frame is the last one obtained; buf changes only when a frame is
\* obtained with none in hand, or when the frame in hand is returned after its
\* encoding has been published; end-of-stream comes with no frame in hand and
\* returns none.
C20_FrameReturnedOnceAfterPublish ==
  /\ []((buf # 0 <=> InCycle) /\ (InCycle => buf = frameNo))
  /\ [][ /\ buf' # buf =>
             \/ (buf = 0 /\ mpc = "getframe" /\ mpc' = "lock" /\ buf' = frameNo + 1)
             \/ ( /\ buf' = 0 /\ mpc = "release" /\ mpc' = "check"
                  /\ temp_jpeg_buffer \in published
                  /\ temp_jpeg_buffer[1][1] = buf )
         /\ (mpc = "getframe" /\ mpc' = "shutdown") => (buf = 0 /\ buf' = 0) ]_vars

\* C20 witness: every frame of the run has been obtained, published and returned, and
\* the provider has reported end-of-stream.
C20_Witness ==
  /\ mpc = "shutdown"
  /\ frameNo = MaxFrames
  /\ buf = 0
  /\ \A n \in 1..MaxFrames : \E f \in published : f[1][1] = n


\* C21: when getLastFrameBlocking yields no frame the loop is left and the process then
\* always comes to its end, whatever the server thread has done of its start-up by
\* then; at the end of main.cpp the event loop is stopped and the server thread has
\* returned (it was joined).
C21_EndOfStreamShutsDownInOrder ==
  /\ [][(mpc = "getframe" /\ mpc' # mpc /\ buf' = 0) => mpc' = "shutdown"]_vars
  /\ (mpc = "shutdown") ~> (mpc = "done")
  /\ []((mpc = "done" /\ prog = "main") => (spc = "returned" /\ ~is_running))


\* C22: the main thread goes through each cycle in one order: test of the reload flag
\* (with reload and clearing when set), local copy of the configuration, wait for the
\* frame, classification and encoding, publication, return of the frame.  The flag is
\* cleared, the copy taken, the frame obtained, published and returned only at their
\* place in that order.
C22_CycleStepsInFixedOrder ==
  [][ /\ mpc' # mpc =>
           <<mpc, mpc'>> \in
             { <<"startup", "check">>, <<"check", "reload">>, <<"check", "snaplock">>,
               <<"reload", "clear">>, <<"clear", "snaplock">>, <<"snaplock", "snapshot">>,
               <<"snapshot", "getframe">>,
               <<"getframe", "lock">>, <<"getframe", "shutdown">>, <<"lock", "write">>,
               <<"write", "release">>, <<"release", "check">>,
               <<"shutdown", "join">>, <<"shutdown", "done">>, <<"join", "done">> }
      /\ (flag /\ ~flag') => (mpc = "clear" /\ mpc' = "snaplock")
      /\ (mpc = "snapshot" /\ mpc' = "getframe") => current_config' = g_config
      /\ current_config' # current_config => (mpc = "snapshot" /\ mpc' = "getframe")
      /\ frameNo' # frameNo =>
           /\ mpc = "getframe" /\ mpc' = "lock"
           /\ frameNo' = frameNo + 1 /\ buf = 0 /\ buf' = frameNo'
           /\ temp_jpeg_buffer' = Encode(frameNo', Classify(prog, current_config, lumas'))
      /\ temp_jpeg_buffer' # temp_jpeg_buffer => frameNo' # frameNo
      /\ published' # published =>
           /\ mpc = "write" /\ mpc' = "release"
           /\ published' = published \cup {temp_jpeg_buffer}
           /\ jpeg_buffer' = temp_jpeg_buffer
           /\ buf = frameNo /\ buf' = buf
      /\ (mpc = "write" /\ mpc' = "release") => temp_jpeg_buffer \in published'
      /\ (buf # 0 /\ buf' = 0) =>
           (mpc = "release" /\ mpc' = "check" /\ temp_jpeg_buffer \in published) ]_vars

\* two whole cycles were gone through, the second after a reload
C22_Witness ==
  /\ mpc = "check" /\ buf = 0
  /\ frameNo = MaxFrames /\ Cardinality(published) = MaxFrames
  /\ g_config # DefaultConfig /\ current_config = g_config


\* C23: in every cycle, reload or not, the loop copies all of g_config as it is at one
\* moment into current_config; from then to the end of the cycle neither g_config nor
\* the copy changes, whatever the upload handlers do to the file and the flag
\* meanwhile, and the frame of the cycle is classified with the copy.
C23_CycleUsesItsOwnSnapshot ==
  [][ /\ (mpc' = "getframe" /\ mpc # "getframe") =>
           (mpc = "snapshot" /\ \A f \in FieldSet : current_config'[f] = g_config[f])
      /\ (mpc \in {"getframe", "lock", "write", "release"}) =>
           (current_config' = current_config /\ g_config' = g_config)
      /\ (file' # file \/ (flag' /\ ~flag)) =>
           /\ current_config' = current_config /\ g_config' = g_config
           /\ temp_jpeg_buffer' = temp_jpeg_buffer
      /\ frameNo' # frameNo =>
           temp_jpeg_buffer' = Encode(frameNo', Classify(prog, current_config', lumas')) ]_vars

\* a frame was classified with the copy taken before an upload that is now stored and
\* signalled, but not yet loaded
C23_Witness ==
  /\ mpc \in {"lock", "write", "release"}
  /\ flag /\ file.exists /\ file.text = BodyText("radius20")
  /\ current_config.lamp_radius # 20
  /\ current_state = Classify(prog, current_config, lumas)


C25_ChunkIsTheThreadsOwnCopy ==
  [][ /\ \A c \in Clients :
           /\ (cpc[c] = "st_send" /\ cpc'[c] = "st_sleep") =>
                /\ sent'[c] = [boundary |-> "--frame", type |-> "image/jpeg",
                               length |-> Len(buffer_copy[c]),
                               payload |-> buffer_copy[c], delimiter |-> "CRLF"]
                /\ buffer_copy[c] \in published
           /\ (sent'[c] # sent[c] /\ cpc'[c] # "closed") =>
                (cpc[c] = "st_send" /\ cpc'[c] = "st_sleep")
      /\ jpeg_buffer' # jpeg_buffer => (buffer_copy' = buffer_copy /\ sent' = sent) ]_vars

\* a thread that has sent the first frame holds its next copy, again the first frame,
\* ready to send while the loop has overwritten half of jpeg_buffer with the second
C25_Witness ==
  \E c \in Clients :
    /\ cpc[c] = "st_send" /\ alive[c]
    /\ sent[c].length = FrameLen /\ sent[c].payload[1][1] = 1
    /\ buffer_copy[c][1][1] = 1
    /\ mpc = "write" /\ wi = 1 /\ frameNo = 2
    /\ jpeg_buffer \notin published


\* C26: jpeg_buffer changes only in the loop's assignment under frame_mutex and g_config
\* only in a load_config of the main thread; the reload flag is cleared only by the
\* main thread after its reload and set only by an upload handler; a step of a thread
\* that serves the stream changes none of jpeg_buffer, g_config, config.json and the
\* reload flag.
C26_WritersAreExclusive ==
  [][ /\ jpeg_buffer' # jpeg_buffer =>
           (mpc = "write" /\ frame_mutex = MainId /\ cpc' = cpc)
      /\ g_config' # g_config =>
           (mpc \in {"startup", "reload"} /\ mpc' # mpc /\ cpc' = cpc)
      /\ (flag /\ ~flag') => (mpc = "clear" /\ mpc' = "snaplock" /\ cpc' = cpc)
      /\ (~flag /\ flag') =>
           (mpc' = mpc /\ \E c \in Clients :
                           /\ req[c].kind \in {"post", "post_empty", "post_nosep"}
                           /\ cpc[c] = "up_flag" /\ cpc'[c] = "up_resp")
      /\ \A c \in Clients :
           ( /\ cpc[c] \in {"st_header", "st_lock", "st_copy", "st_retry", "st_send",
                            "st_sleep"}
             /\ \/ cpc'[c] # cpc[c] \/ buffer_copy'[c] # buffer_copy[c]
                \/ sent'[c] # sent[c] \/ out'[c] # out[c] ) =>
           ( /\ jpeg_buffer' = jpeg_buffer /\ g_config' = g_config
             /\ file' = file /\ flag' = flag /\ persisted' = persisted ) ]_vars

\* the loop has published and reloaded, one thread has sent a chunk and another has
\* stored an upload and set the flag
C26_Witness ==
  /\ jpeg_buffer \in published
  /\ persisted # "none" /\ g_config = LoadConfig(prog, DefaultConfig, BodyFile(persisted))
  /\ g_config # DefaultConfig
  /\ \E c, d \in Clients :
       /\ cpc[c] = "st_sleep" /\ sent[c].payload \in published
       /\ cpc[d] = "up_resp" /\ flag


\* C27: the frames one stream thread sends never go back in the order of publication:
\* each chunk carries the frame of the chunk before it or a frame published later
\* (frames are numbered as the loop obtains them, which is the order it publishes them).
C27_SentFramesNeverGoBack ==
  [][ \A c \in Clients :
        (sent[c] # NoChunk /\ sent'[c] # NoChunk /\ cpc[c] = "st_send") =>
          /\ sent[c].payload \in published /\ sent'[c].payload \in published
          /\ sent'[c].payload[1][1] >= sent[c].payload[1][1] ]_vars

\* a thread that has sent the first frame holds the second, ready to send, while
\* another thread has just sent the first frame a second time or later
C27_Witness ==
  \E c, d \in Clients :
    /\ c # d
    /\ cpc[c] = "st_send" /\ alive[c]
    /\ sent[c] # NoChunk /\ sent[c].payload[1][1] = 1
    /\ buffer_copy[c] \in published /\ buffer_copy[c][1][1] = 2
    /\ cpc[d] = "st_sleep" /\ sent[d].payload[1][1] = 1


\* C28: from the first publication on jpeg_buffer is never empty: no step empties it,
\* and a stream thread that tests it after the first publication always finds a frame
\* and copies it instead of going to its 10 ms wait.
C28_SlotNeverEmptyAgain ==
  /\ [](published # {} => jpeg_buffer # <<>>)
  /\ [][ /\ jpeg_buffer # <<>> => jpeg_buffer' # <<>>
         /\ \A c \in Clients :
              (published # {} /\ cpc[c] = "st_copy" /\ cpc'[c] # cpc[c]) =>
                (cpc'[c] = "st_send" /\ buffer_copy'[c] # <<>>) ]_vars

\* after the second publication a thread that has sent the first frame has copied
\* the second
C28_Witness ==
  /\ Cardinality(published) = 2 /\ mpc = "check"
  /\ \E c \in Clients :
       /\ cpc[c] = "st_send" /\ buffer_copy[c] = jpeg_buffer
       /\ sent[c] # NoChunk /\ sent[c].payload # jpeg_buffer


\* C29: whenever the loop reloads, the config.json it reads is the whole body of one
\* upload the program accepts (main.cpp: a non-empty body; example.cpp: any body after
\* the blank line), never a shortened body or a mix of two.
C29_ReloadNeverReadsTornDocument ==
  [][ (mpc = "reload" /\ mpc' # mpc /\ file.exists) =>
        \/ \E b \in BodyIds : file.text = BodyText(b)
        \/ prog = "example" /\ file.text = <<>> ]_vars


\* C30: each connection has a thread of its own; the thread's handler ends at the close
\* of the connection on every route (upload stored or refused, stream after a failed
\* write, no matching route, preflight, failed read); a connection is closed there and
\* nowhere else, never a second time, and after the close its thread neither writes to
\* it nor takes any other step.
C30_ConnectionClosedOnceAfterHandler ==
  /\ [](\A c \in Clients : closes[c] <= 1 /\ (closes[c] = 1 <=> cpc[c] = "closed"))
  /\ [][ \A c \in Clients :
           /\ cpc'[c] # cpc[c] =>
                /\ <<cpc[c], cpc'[c]>> \in
                     { <<"idle", "read">>, <<"read", "save">>, <<"read", "st_header">>,
                       <<"read", "notfound">>, <<"read", "preflight">>, <<"read", "close">>,
                       <<"save", "up_open">>, <<"save", "close">>,
                       <<"up_open", "up_write">>, <<"up_open", "up_flag">>,
                       <<"up_write", "up_flag">>, <<"up_flag", "up_resp">>,
                       <<"up_resp", "close">>, <<"notfound", "close">>,
                       <<"preflight", "close">>, <<"st_header", "st_lock">>,
                       <<"st_lock", "st_copy">>, <<"st_copy", "st_retry">>,
                       <<"st_copy", "st_send">>, <<"st_retry", "st_lock">>,
                       <<"st_send", "st_sleep">>, <<"st_send", "close">>,
                       <<"st_sleep", "st_lock">>, <<"close", "closed">> }
                /\ \A d \in Clients \ {c} : cpc'[d] = cpc[d]
           /\ (cpc[c] = "st_send" /\ cpc'[c] = "close") => ~alive[c]
           /\ closes'[c] # closes[c] =>
                (closes[c] = 0 /\ closes'[c] = 1 /\ cpc[c] = "close" /\ cpc'[c] = "closed")
           /\ closes[c] > 0 =>
                /\ cpc'[c] = cpc[c] /\ out'[c] = out[c] /\ sent'[c] = sent[c]
                /\ buffer_copy'[c] = buffer_copy[c] /\ req'[c] = req[c] ]_vars

\* one connection is closed and the thread of another, whose stream write has failed,
\* is about to close it
C30_Witness ==
  \E c, d \in Clients :
    /\ closes[c] = 1 /\ cpc[c] = "closed"
    /\ cpc[d] = "close" /\ req[d].kind = "stream" /\ ~alive[d] /\ closes[d] = 0

=============================================================================
